---- MODULE Spec2Model ----
(***************************************************************************)
(* Model of views::Canvas<T> (src/views/canvas.rs): a view that owns a     *)
(* state of type T and six boxed closures, and implements the View trait   *)
(* by forwarding each call to the closure stored in the field of the same  *)
(* name.  T is instantiated with a small integer counter.                  *)
(***************************************************************************)
EXTENDS Integers, Sequences, FiniteSets, TLC

\* ------------------------------------------------------------------ bounds
MaxState == 3        \* values of T are 0..MaxState
MaxCoord == 1        \* Vec2 components are 0..MaxCoord
MaxDispatch == 3     \* increment events dispatched in one behaviour

States == 0..MaxState
Coords == 0..MaxCoord
Vec2s == Coords \X Coords
Events == {"inc", "key", "resize"}
Directions == {"none", "front", "back"}
Printers == {"p1", "p2"}

\* The event the counter scenario increments on, the direction the focus
\* closure accepts, and the value that closure leaves in the state.
IncEvent == "inc"
FocusDir == "front"
FocusMark == MaxState

\* ------------------------------------------------- closures (type F values)
\* A closure is named by an identifier; "default" is the closure that
\* Canvas::new boxes for the field.  The others are closures a caller may
\* pass to the setters.  A closure is a function of its input and the state
\* it is handed, giving a result and the state it leaves behind.
DrawFns == {"default", "render"}
OnEventFns == {"default", "incr"}
RequiredSizeFns == {"default", "fit", "count"}
LayoutFns == {"default", "store"}
TakeFocusFns == {"default", "accept"}
NeedsRelayoutFns == {"default", "never"}

\* Fn(&Printer, &T): what the closure prints; the state is read-only.
DrawFn(f, printer, st) ==
    IF f = "render" THEN <<printer, st>> ELSE <<>>

\* FnMut(Event, &mut T) -> EventResult
OnEventFn(f, event, st) ==
    CASE f = "incr" ->
           IF event = IncEvent THEN [ret |-> "consumed", st |-> st + 1]
                               ELSE [ret |-> "ignored", st |-> st]
      [] OTHER -> [ret |-> "ignored", st |-> st]

\* The default size closure handing the constraint back.
RequiredSizeFn_echo(f, constraint, st) ==
    CASE f = "count" -> [ret |-> <<st, 1>>, st |-> st + 1]
      [] OTHER -> [ret |-> constraint, st |-> st]

\* FnMut(Vec2, &mut T) -> Vec2
RequiredSizeFn(f, constraint, st) ==
    CASE f = "fit" -> [ret |-> constraint, st |-> st]
      [] f = "count" -> [ret |-> <<st, 1>>, st |-> st + 1]
      [] OTHER -> [ret |-> <<1, 1>>, st |-> st]

\* FnMut(Vec2, &mut T)
LayoutFn(f, size, st) ==
    CASE f = "store" -> [ret |-> "unit", st |-> size[1]]
      [] OTHER -> [ret |-> "unit", st |-> st]

\* FnMut(Direction, &mut T) -> bool
TakeFocusFn(f, source, st) ==
    CASE f = "accept" ->
           IF source = FocusDir THEN [ret |-> TRUE, st |-> FocusMark]
                                ELSE [ret |-> FALSE, st |-> st]
      [] OTHER -> [ret |-> FALSE, st |-> st]

\* Fn(&T) -> bool
NeedsRelayoutFn(f, st) ==
    IF f = "never" THEN FALSE ELSE TRUE

\* ------------------------------------------------------------ Canvas<T>
Canvas_new(s) ==
    [state |-> s,
     draw |-> "default",
     on_event |-> "default",
     required_size |-> "default",
     layout |-> "default",
     take_focus |-> "default",
     needs_relayout |-> "default"]

\* &mut self.state: the reference reads the field and writes go to it.
state_mut(c) == c.state
state_mut_write(c, v) == [c EXCEPT !.state = v]

\* set_layout storing into the draw field.
set_layout_draw(c, f) == [c EXCEPT !.draw = f]
\* set_on_event rebuilding the canvas around a fresh state.
set_on_event_reset(c, f) == [c EXCEPT !.on_event = f, !.state = 0]

set_draw(c, f) == [c EXCEPT !.draw = f]
set_on_event(c, f) == [c EXCEPT !.on_event = f]
set_required_size(c, f) == [c EXCEPT !.required_size = f]
set_layout(c, f) == [c EXCEPT !.layout = f]
set_take_focus(c, f) == [c EXCEPT !.take_focus = f]
set_needs_relayout(c, f) == [c EXCEPT !.needs_relayout = f]

\* With::with (trait With): takes the value, runs the closure on a mutable
\* reference to it and returns the value.
With(c, F(_)) == F(c)

\* with_take_focus returning the canvas it was given.
with_take_focus_noop(c, f) == c

with_draw(c, f) == With(c, LAMBDA s : set_draw(s, f))
with_on_event(c, f) == With(c, LAMBDA s : set_on_event(s, f))
with_required_size(c, f) == With(c, LAMBDA s : set_required_size(s, f))
with_layout(c, f) == With(c, LAMBDA s : set_layout(s, f))
with_take_focus(c, f) == With(c, LAMBDA s : set_take_focus(s, f))
with_needs_relayout(c, f) == With(c, LAMBDA s : set_needs_relayout(s, f))

\* ------------------------------------------------- impl View for Canvas<T>
\* Each method gives the canvas after the call, the value returned, the
\* closures invoked (field, closure, input and state handed over) and what
\* was printed.
Invoked(slot, f, input, st) ==
    [slot |-> slot, fn |-> f, input |-> input, st |-> st]

\* draw invoking its closure twice.
View_draw_twice(c, printer) ==
    [canvas |-> c,
     ret |-> "unit",
     called |-> <<Invoked("draw", c.draw, printer, c.state),
                  Invoked("draw", c.draw, printer, c.state)>>,
     out |-> DrawFn(c.draw, printer, c.state) \o DrawFn(c.draw, printer, c.state)]

View_draw(c, printer) ==
    [canvas |-> c,
     ret |-> "unit",
     called |-> <<Invoked("draw", c.draw, printer, c.state)>>,
     out |-> DrawFn(c.draw, printer, c.state)]

\* on_event handing its closure a copy of the state.
View_on_event_copy(c, event) ==
    LET r == OnEventFn(c.on_event, event, c.state) IN
    [canvas |-> c,
     ret |-> r.ret,
     called |-> <<Invoked("on_event", c.on_event, event, c.state)>>,
     out |-> <<>>]

View_on_event(c, event) ==
    LET r == OnEventFn(c.on_event, event, c.state) IN
    [canvas |-> [c EXCEPT !.state = r.st],
     ret |-> r.ret,
     called |-> <<Invoked("on_event", c.on_event, event, c.state)>>,
     out |-> <<>>]

\* required_size taking its closure out of the field and leaving the
\* default behind.
View_required_size_take(c, constraint) ==
    LET r == RequiredSizeFn(c.required_size, constraint, c.state) IN
    [canvas |-> [c EXCEPT !.state = r.st, !.required_size = "default"],
     ret |-> r.ret,
     called |-> <<Invoked("required_size", c.required_size, constraint, c.state)>>,
     out |-> <<>>]

View_required_size(c, constraint) ==
    LET r == RequiredSizeFn(c.required_size, constraint, c.state) IN
    [canvas |-> [c EXCEPT !.state = r.st],
     ret |-> r.ret,
     called |-> <<Invoked("required_size", c.required_size, constraint, c.state)>>,
     out |-> <<>>]

View_layout(c, size) ==
    LET r == LayoutFn(c.layout, size, c.state) IN
    [canvas |-> [c EXCEPT !.state = r.st],
     ret |-> "unit",
     called |-> <<Invoked("layout", c.layout, size, c.state)>>,
     out |-> <<>>]

\* take_focus handing its closure a copy of the state.
View_take_focus_copy(c, source) ==
    LET r == TakeFocusFn(c.take_focus, source, c.state) IN
    [canvas |-> c,
     ret |-> r.ret,
     called |-> <<Invoked("take_focus", c.take_focus, source, c.state)>>,
     out |-> <<>>]

View_take_focus(c, source) ==
    LET r == TakeFocusFn(c.take_focus, source, c.state) IN
    [canvas |-> [c EXCEPT !.state = r.st],
     ret |-> r.ret,
     called |-> <<Invoked("take_focus", c.take_focus, source, c.state)>>,
     out |-> <<>>]

\* The impl block has no needs_relayout method: the call goes to the View
\* trait's provided method, which answers true and never looks at the
\* needs_relayout field.
View_needs_relayout(c) ==
    [canvas |-> c,
     ret |-> TRUE,
     called |-> <<>>,
     out |-> <<>>]

\* ---------------------------------------------------------------- state
VARIABLES
    canvas,      \* the Canvas<T> value
    twin,        \* a second Canvas<T> built from the same calls, with every
                 \* set_X replaced by with_X and every with_X by set_X
    lastOp,      \* the last call made on canvas and what it did
    twinRet,     \* what the same call returned on twin
    installed,   \* per field, the closure most recently passed to a setter
    prevReq,     \* <<result, state before>> of the call just before lastOp when
                 \* both are required_size calls with the same constraint,
                 \* <<>> otherwise
    dispatched   \* number of IncEvent events passed to on_event so far

vars == <<canvas, twin, lastOp, twinRet, installed, prevReq, dispatched>>

Op(op, input, pre, r) ==
    [op |-> op, input |-> input, pre |-> pre,
     ret |-> r.ret, called |-> r.called, out |-> r.out]

NoCall == [ret |-> "unit", called |-> <<>>, out |-> <<>>]

Slots == {"draw", "on_event", "required_size", "layout", "take_focus",
          "needs_relayout"}

Init ==
    \E s \in States :
        /\ canvas = Canvas_new(s)
        /\ twin = Canvas_new(s)
        /\ lastOp = Op("new", s, s, NoCall)
        /\ twinRet = "unit"
        /\ installed = [x \in Slots |-> "default"]
        /\ prevReq = <<>>
        /\ dispatched = 0

\* A View call: r and t are the method's outcome on canvas and on twin.
Call(op, input, r, t) ==
    /\ r.canvas.state \in States
    /\ canvas' = r.canvas
    /\ twin' = t.canvas
    /\ lastOp' = Op(op, input, canvas.state, r)
    /\ twinRet' = t.ret
    /\ prevReq' = IF op = "required_size" /\ lastOp.op = "required_size"
                      /\ lastOp.input = input
                   THEN <<lastOp.ret, lastOp.pre>> ELSE <<>>
    /\ UNCHANGED installed

Draw ==
    \E printer \in Printers :
        /\ Call("draw", printer, View_draw(canvas, printer), View_draw(twin, printer))
        /\ UNCHANGED dispatched

OnEvent ==
    \E event \in Events :
        /\ event = IncEvent => dispatched < MaxDispatch
        /\ Call("on_event", event, View_on_event(canvas, event), View_on_event(twin, event))
        /\ dispatched' = IF event = IncEvent THEN dispatched + 1 ELSE dispatched

RequiredSize ==
    \E constraint \in Vec2s :
        /\ Call("required_size", constraint, View_required_size(canvas, constraint),
                View_required_size(twin, constraint))
        /\ UNCHANGED dispatched

Layout ==
    \E size \in Vec2s :
        /\ Call("layout", size, View_layout(canvas, size), View_layout(twin, size))
        /\ UNCHANGED dispatched

TakeFocus ==
    \E source \in Directions :
        /\ Call("take_focus", source, View_take_focus(canvas, source),
                View_take_focus(twin, source))
        /\ UNCHANGED dispatched

NeedsRelayout ==
    /\ Call("needs_relayout", "none", View_needs_relayout(canvas), View_needs_relayout(twin))
    /\ UNCHANGED dispatched

\* External code writes v through the reference state_mut returns.
StateMut ==
    \E v \in States :
        /\ canvas' = state_mut_write(canvas, v)
        /\ twin' = state_mut_write(twin, v)
        /\ lastOp' = Op("state_mut", v, state_mut(canvas), NoCall)
        /\ twinRet' = "unit"
        /\ prevReq' = <<>>
        /\ UNCHANGED <<installed, dispatched>>

\* A setter call: c and t are the canvas and the twin after it.
Install(op, slot, f, c, t) ==
    /\ canvas' = c
    /\ twin' = t
    /\ lastOp' = Op(op, f, canvas.state, NoCall)
    /\ twinRet' = "unit"
    /\ prevReq' = <<>>
    /\ installed' = [installed EXCEPT ![slot] = f]
    /\ UNCHANGED dispatched

SetDraw ==
    \E f \in DrawFns :
        Install("set_draw", "draw", f, set_draw(canvas, f), with_draw(twin, f))
WithDraw ==
    \E f \in DrawFns :
        Install("with_draw", "draw", f, with_draw(canvas, f), set_draw(twin, f))
SetOnEvent ==
    \E f \in OnEventFns :
        Install("set_on_event", "on_event", f, set_on_event(canvas, f), with_on_event(twin, f))
WithOnEvent ==
    \E f \in OnEventFns :
        Install("with_on_event", "on_event", f, with_on_event(canvas, f), set_on_event(twin, f))
SetRequiredSize ==
    \E f \in RequiredSizeFns :
        Install("set_required_size", "required_size", f,
                set_required_size(canvas, f), with_required_size(twin, f))
WithRequiredSize ==
    \E f \in RequiredSizeFns :
        Install("with_required_size", "required_size", f,
                with_required_size(canvas, f), set_required_size(twin, f))
SetLayout ==
    \E f \in LayoutFns :
        Install("set_layout", "layout", f, set_layout(canvas, f), with_layout(twin, f))
WithLayout ==
    \E f \in LayoutFns :
        Install("with_layout", "layout", f, with_layout(canvas, f), set_layout(twin, f))
SetTakeFocus ==
    \E f \in TakeFocusFns :
        Install("set_take_focus", "take_focus", f,
                set_take_focus(canvas, f), with_take_focus(twin, f))
WithTakeFocus ==
    \E f \in TakeFocusFns :
        Install("with_take_focus", "take_focus", f,
                with_take_focus(canvas, f), set_take_focus(twin, f))
SetNeedsRelayout ==
    \E f \in NeedsRelayoutFns :
        Install("set_needs_relayout", "needs_relayout", f,
                set_needs_relayout(canvas, f), with_needs_relayout(twin, f))
WithNeedsRelayout ==
    \E f \in NeedsRelayoutFns :
        Install("with_needs_relayout", "needs_relayout", f,
                with_needs_relayout(canvas, f), set_needs_relayout(twin, f))

Next ==
    \/ Draw
    \/ OnEvent
    \/ RequiredSize
    \/ Layout
    \/ TakeFocus
    \/ NeedsRelayout
    \/ StateMut
    \/ SetDraw
    \/ WithDraw
    \/ SetOnEvent
    \/ WithOnEvent
    \/ SetRequiredSize
    \/ WithRequiredSize
    \/ SetLayout
    \/ WithLayout
    \/ SetTakeFocus
    \/ WithTakeFocus
    \/ SetNeedsRelayout
    \/ WithNeedsRelayout

Spec == Init /\ [][Next]_vars

\* A canvas on which only View methods are called.
NextCalls ==
    \/ Draw
    \/ OnEvent
    \/ RequiredSize
    \/ Layout
    \/ TakeFocus
    \/ NeedsRelayout

\* Canvas::new(s) with no setter called.
SpecDefault == Init /\ [][NextCalls]_vars

\* Canvas::new(0).with_draw(d).with_on_event(incr): the counter scenario.
InitCounter ==
    \E d \in DrawFns :
        /\ canvas = with_on_event(with_draw(Canvas_new(0), d), "incr")
        /\ twin = set_on_event(set_draw(Canvas_new(0), d), "incr")
        /\ lastOp = Op("with_on_event", "incr", 0, NoCall)
        /\ twinRet = "unit"
        /\ installed = [x \in Slots |-> CASE x = "draw" -> d
                                           [] x = "on_event" -> "incr"
                                           [] OTHER -> "default"]
        /\ prevReq = <<>>
        /\ dispatched = 0

SpecCounter == InitCounter /\ [][NextCalls]_vars

\* ------------------------------------------------------------ properties
SetterOps == {"set_draw", "with_draw", "set_on_event", "with_on_event",
              "set_required_size", "with_required_size", "set_layout",
              "with_layout", "set_take_focus", "with_take_focus",
              "set_needs_relayout", "with_needs_relayout"}
MutableOps == {"on_event", "required_size", "layout", "take_focus"}
SettersOf(x) == {"set_" \o x, "with_" \o x}

\* C1: on a Canvas::new(s) with no setter called, on_event returns
\* "ignored", required_size returns (1,1) for every constraint, take_focus
\* returns false, needs_relayout returns true, draw prints nothing, and draw
\* and layout leave the state as it was.
C1_Defaults ==
    /\ lastOp.op = "on_event" => lastOp.ret = "ignored"
    /\ lastOp.op = "required_size" => lastOp.ret = <<1, 1>>
    /\ lastOp.op = "take_focus" => lastOp.ret = FALSE
    /\ lastOp.op = "needs_relayout" => lastOp.ret = TRUE
    /\ lastOp.op = "draw" => lastOp.out = <<>> /\ canvas.state = lastOp.pre
    /\ lastOp.op = "layout" => canvas.state = lastOp.pre

C1_Witness ==
    /\ lastOp.op = "required_size"
    /\ lastOp.input = <<0, 0>>
    /\ lastOp.ret = <<1, 1>>
    /\ installed = [x \in Slots |-> "default"]

\* C2: needs_relayout called through View returns what the stored
\* needs_relayout closure returns on the current state.
C2_NeedsRelayoutDelegates ==
    lastOp.op = "needs_relayout" =>
        lastOp.ret = NeedsRelayoutFn(canvas.needs_relayout, canvas.state)

\* C3: on_event, required_size, layout and take_focus each invoke the
\* installed closure exactly once with the caller's input and the current
\* state, return its result, and leave in the state what the closure left;
\* a take_focus closure that marks the state and accepts direction FocusDir
\* makes take_focus(FocusDir) return true with the mark readable through
\* state_mut.
C3_MutableDelegation ==
    /\ lastOp.op \in MutableOps =>
          lastOp.called =
              <<Invoked(lastOp.op, installed[lastOp.op], lastOp.input, lastOp.pre)>>
    /\ lastOp.op = "on_event" =>
          LET r == OnEventFn(installed.on_event, lastOp.input, lastOp.pre) IN
          lastOp.ret = r.ret /\ state_mut(canvas) = r.st
    /\ lastOp.op = "required_size" =>
          LET r == RequiredSizeFn(installed.required_size, lastOp.input, lastOp.pre) IN
          lastOp.ret = r.ret /\ state_mut(canvas) = r.st
    /\ lastOp.op = "layout" =>
          LET r == LayoutFn(installed.layout, lastOp.input, lastOp.pre) IN
          state_mut(canvas) = r.st
    /\ lastOp.op = "take_focus" =>
          LET r == TakeFocusFn(installed.take_focus, lastOp.input, lastOp.pre) IN
          lastOp.ret = r.ret /\ state_mut(canvas) = r.st
    /\ (lastOp.op = "take_focus" /\ installed.take_focus = "accept"
           /\ lastOp.input = FocusDir) =>
          lastOp.ret = TRUE /\ state_mut(canvas) = FocusMark

C3_Witness ==
    /\ lastOp.op = "take_focus"
    /\ installed.take_focus = "accept"
    /\ lastOp.input = FocusDir
    /\ lastOp.pre # FocusMark
    /\ lastOp.ret = TRUE
    /\ state_mut(canvas) = FocusMark

\* C4: in the counter scenario the state equals the number of increment
\* events dispatched; an increment event returns "consumed"; any other event
\* returns "ignored" and leaves the counter unchanged.
C4_Counter ==
    /\ canvas.state = dispatched
    /\ (lastOp.op = "on_event" /\ lastOp.input = IncEvent) =>
          lastOp.ret = "consumed" /\ canvas.state = lastOp.pre + 1
    /\ (lastOp.op = "on_event" /\ lastOp.input # IncEvent) =>
          lastOp.ret = "ignored" /\ canvas.state = lastOp.pre

C4_Witness ==
    /\ dispatched = 3
    /\ lastOp.op = "on_event"
    /\ lastOp.input # IncEvent
    /\ lastOp.ret = "ignored"
    /\ canvas.state = 3

\* C5: a setter stores its closure in the field it names and changes
\* neither the state nor any of the other five fields.
C5_SetterFrame ==
    /\ [](\A x \in Slots : lastOp.op \in SettersOf(x) => canvas[x] = lastOp.input)
    /\ [][lastOp'.op \in SetterOps =>
             /\ canvas'.state = canvas.state
             /\ \A x \in Slots :
                    lastOp'.op \notin SettersOf(x) => canvas'[x] = canvas[x]]_vars

C5_Witness ==
    /\ lastOp.op = "with_layout"
    /\ canvas.draw = "render"
    /\ canvas.layout = "store"
    /\ canvas.on_event = "default"
    /\ canvas.required_size = "default"
    /\ canvas.take_focus = "default"
    /\ canvas.needs_relayout = "default"

\* C6: a canvas configured through set_X and one configured through with_X
\* are equal after every call and every call returns the same on both.
C6_SetWithEquivalent ==
    /\ twin = canvas
    /\ twinRet = lastOp.ret

C6_Witness ==
    /\ lastOp.op = "take_focus"
    /\ canvas.take_focus = "accept"
    /\ lastOp.ret = TRUE
    /\ twinRet = TRUE
    /\ lastOp.pre # FocusMark
    /\ twin.state = FocusMark

\* C7 as stated: two required_size calls in a row with the same constraint
\* return the same size, whatever closure is installed.
C7_Original ==
    (lastOp.op = "required_size" /\ prevReq # <<>>) => lastOp.ret = prevReq[1]

\* C7 amended: two required_size calls in a row with the same constraint
\* return the same size when the first call left the state as it found it.
C7_Idempotent ==
    (lastOp.op = "required_size" /\ prevReq # <<>> /\ prevReq[2] = lastOp.pre) =>
        lastOp.ret = prevReq[1]

C7_Witness ==
    /\ lastOp.op = "required_size"
    /\ canvas.required_size = "fit"
    /\ prevReq = <<lastOp.input, lastOp.pre>>
    /\ lastOp.ret = lastOp.input
    /\ lastOp.input = <<0, 1>>

\* C8: draw invokes the installed draw closure exactly once, with the given
\* printer and the state as it is at the call, invokes nothing else, prints
\* what that closure prints and leaves the state unchanged.
C8_DrawDelegation ==
    lastOp.op = "draw" =>
        /\ lastOp.called =
               <<Invoked("draw", installed.draw, lastOp.input, lastOp.pre)>>
        /\ lastOp.out = DrawFn(installed.draw, lastOp.input, lastOp.pre)
        /\ canvas.state = lastOp.pre

C8_Witness ==
    /\ lastOp.op = "draw"
    /\ installed.draw = "render"
    /\ installed.take_focus = "accept"
    /\ lastOp.out = <<lastOp.input, FocusMark>>
    /\ canvas.state = FocusMark

\* C9: construction stores the given state, and the state changes only in
\* on_event, required_size, layout, take_focus or a write through state_mut.
C9_StateOwnership ==
    /\ [](lastOp.op = "new" => canvas.state = lastOp.input)
    /\ [][canvas'.state # canvas.state =>
             lastOp'.op \in MutableOps \cup {"state_mut"}]_vars

C9_Witness ==
    /\ lastOp.op = "state_mut"
    /\ canvas.state # lastOp.pre
    /\ canvas.state = lastOp.input

\* C10: each View method invokes exactly the closure most recently passed
\* to a setter of its field, and a setter invokes nothing.
C10_LastSetterWins ==
    /\ lastOp.op \in SetterOps => lastOp.called = <<>>
    /\ (lastOp.op \in MutableOps \cup {"draw"}) =>
          (Len(lastOp.called) = 1 /\ lastOp.called[1].fn = installed[lastOp.op])
    /\ (lastOp.op = "needs_relayout" /\ installed.needs_relayout # "default") =>
          (Len(lastOp.called) = 1
             /\ lastOp.called[1].fn = installed.needs_relayout)

====
